---- MODULE Spec2Model ----
(***************************************************************************)
(* QReminderPlugin: the reminder store, the scheduler (one asyncio task    *)
(* per scheduled reminder), the delivery retry loop and the recurrence     *)
(* handling, in both implementations of the repository:                    *)
(*   impl = "plugin"   ReminderPlugin                (src/main.py)         *)
(*   impl = "manager"  ReminderManager + MessageHandler (src/src/reminder) *)
(*                                                                         *)
(* Time is counted in whole seconds since 2025-01-01T00:00:00.  asyncio    *)
(* runs one coroutine at a time and switches only at an await that really  *)
(* suspends (asyncio.sleep, the host's send); _save_reminders and          *)
(* _schedule_reminder contain no such await, so every handler below is one *)
(* atomic action and a task is one action per suspension point.            *)
(* CancelledError is a BaseException (Python >= 3.8): "except Exception"   *)
(* does not swallow it, so a cancelled task ends at the await it is        *)
(* suspended on.                                                           *)
(*                                                                         *)
(* file is the content of data_file (reminders.json) as the last           *)
(* _save_reminders wrote it.  The process can stop (its tasks and memory   *)
(* are lost, the file stays) and start again with initialize().            *)
(***************************************************************************)
EXTENDS Integers, Sequences, FiniteSets, TLC

VARIABLES impl, now, objs, reminders, running_tasks, tasks, delivered, ev, issued,
          nticks, file, up

vars == <<impl, now, objs, reminders, running_tasks, tasks, delivered, ev, issued,
          nticks, file, up>>

\* ------------------------------------------------------------------ bounds
\* number of Reminder objects (record dicts) ever created in one behaviour
MaxObjs == 2
\* number of creates and clock advances together in one behaviour
MaxWork == 4

\* ------------------------------------------------------- program constants
Day == 86400
Week == 604800
max_retries == 3
BackoffUnit == 30
\* the instant the behaviours start at: 2025-01-28T23:59:58
StartNow == 27 * Day + 86398

Impls == {"plugin", "manager"}
Senders == {"u1"}
RepeatTypes == {"none", "daily", "weekly", "monthly"}
\* the offsets from now a time expression resolves to (0: not in the future)
Delays == {0, 1, 2}

Content == "c"
NoId == <<"", 0>>
NoTime == 0 - 1

\* ---------------------------------------------------------------- calendar
\* datetime's proleptic Gregorian calendar, counted from 2025-01-01.

IsLeap(y) == (y % 4 = 0 /\ y % 100 # 0) \/ y % 400 = 0

DaysInMonth(y, m) ==
    IF m = 2 THEN (IF IsLeap(y) THEN 29 ELSE 28)
    ELSE IF m \in {4, 6, 9, 11} THEN 30 ELSE 31

RECURSIVE YMD(_, _, _)
\* the date (year, month, day) that lies `d` days after the first of month m of year y
YMD(y, m, d) ==
    IF d < DaysInMonth(y, m) THEN <<y, m, d + 1>>
    ELSE IF m = 12 THEN YMD(y + 1, 1, d - DaysInMonth(y, m))
    ELSE YMD(y, m + 1, d - DaysInMonth(y, m))

RECURSIVE DaysBefore(_, _)
\* days from 2025-01-01 to the first of month m of year y
DaysBefore(y, m) ==
    IF y = 2025 /\ m = 1 THEN 0
    ELSE IF m = 1 THEN DaysBefore(y - 1, 12) + DaysInMonth(y - 1, 12)
    ELSE DaysBefore(y, m - 1) + DaysInMonth(y, m - 1)

DateOf(t) == YMD(2025, 1, t \div Day)

\* datetime.replace(year=y, month=m) on the instant t: ValueError (NoTime here)
\* when the day of t does not exist in that month
ReplaceMonth(t, y, m) ==
    LET d == DateOf(t)[3]
    IN  IF d > DaysInMonth(y, m) THEN NoTime
        ELSE (DaysBefore(y, m) + d - 1) * Day + (t % Day)

\* datetime.isoformat: the text YYYY-MM-DDTHH:MM:SS of the instant, here the
\* six numbers the text spells
isoformat(t) ==
    LET d == DateOf(t)
        s == t % Day
    IN  <<d[1], d[2], d[3], s \div 3600, (s % 3600) \div 60, s % 60>>

\* datetime.fromisoformat: the instant the text spells
fromisoformat(x) ==
    (DaysBefore(x[1], x[2]) + x[3] - 1) * Day + x[4] * 3600 + x[5] * 60 + x[6]

\* ------------------------------------------------------------------- store
\* self.reminders: a dict, i.e. a sequence of (key, object) in insertion order.
\* objs is the heap: objs[ref] is the Reminder object (record dict) `ref`.
Has(rem, id) == \E i \in 1..Len(rem) : rem[i].id = id

IndexOf(rem, id) == CHOOSE i \in 1..Len(rem) : rem[i].id = id

RefOf(rem, id) == rem[IndexOf(rem, id)].ref

\* self.reminders[id] = obj: a key already present keeps its position
Put(rem, id, ref) ==
    IF Has(rem, id) THEN [rem EXCEPT ![IndexOf(rem, id)].ref = ref]
    ELSE Append(rem, [id |-> id, ref |-> ref])

\* del self.reminders[id]
Del(rem, id) == SelectSeq(rem, LAMBDA e : e.id # id)

\* self.running_tasks[id] = task
RtPut(rt, id, h) == [x \in DOMAIN rt \cup {id} |-> IF x = id THEN h ELSE rt[x]]

\* a table entry that is never removed
RtDelLost(rt, id) == rt

\* del self.running_tasks[id]
RtDel(rt, id) == [x \in DOMAIN rt \ {id} |-> rt[x]]

\* a task that ended (returned, or was cancelled at its await)
TaskDrop(tk, h) == [x \in DOMAIN tk \ {h} |-> tk[x]]

\* a cancel that does not reach the task
CancelLost(tk, h) == tk

\* task.cancel(): ends the task if it has not ended yet, no effect otherwise
Cancel(tk, h) == IF h \in DOMAIN tk THEN TaskDrop(tk, h) ELSE tk

\* the identity of a new Task object: one no live task and no table entry has
NewHandle(m) ==
    LET used == DOMAIN m.tasks \cup {m.running_tasks[x] : x \in DOMAIN m.running_tasks}
    IN  CHOOSE h \in 1..(Cardinality(used) + 1) :
            h \notin used /\ \A g \in 1..(h - 1) : g \in used

\* the mutable state of the program as one value, so that a handler is a
\* function from state to state and handlers compose as the calls do
Cur == [objs |-> objs, reminders |-> reminders, running_tasks |-> running_tasks,
        tasks |-> tasks, delivered |-> delivered, ev |-> ev, file |-> file]

\* an object nothing refers to any more (no store entry, no task) is freed
Reachable(m, ref) ==
    \/ \E i \in 1..Len(m.reminders) : m.reminders[i].ref = ref
    \/ \E t \in DOMAIN m.tasks : m.tasks[t].ref = ref

Freed == [id |-> NoId, sender_id |-> "", target_id |-> "", target_type |-> "",
          content |-> "", target_time |-> NoTime, repeat_type |-> "",
          active |-> FALSE, created_at |-> NoTime]

NoDelivery == [F |-> NoTime, n |-> 0]

Commit(m) ==
    /\ objs' = [r \in 1..Len(m.objs) |-> IF Reachable(m, r) THEN m.objs[r] ELSE Freed]
    /\ reminders' = m.reminders
    /\ running_tasks' = m.running_tasks
    /\ tasks' = m.tasks
    /\ delivered' = [r \in 1..Len(m.objs) |->
                        IF Reachable(m, r) THEN m.delivered[r] ELSE NoDelivery]
    /\ ev' = m.ev
    /\ file' = m.file

\* Reminder.to_dict: the nine keys, the two instants as isoformat text
to_dict(r) ==
    [id |-> r.id, sender_id |-> r.sender_id, target_id |-> r.target_id,
     target_type |-> r.target_type, content |-> r.content,
     target_time |-> isoformat(r.target_time), repeat_type |-> r.repeat_type,
     active |-> r.active, created_at |-> isoformat(r.created_at)]

\* the keys Reminder.from_dict reads with data[...]: KeyError without them
RequiredKeys == {"id", "sender_id", "target_id", "target_type", "content",
                 "target_time", "created_at"}

\* from_dict that reads target_time to the minute and drops its seconds
FromDictMinutes(d) ==
    [id |-> d.id, sender_id |-> d.sender_id, target_id |-> d.target_id,
     target_type |-> d.target_type, content |-> d.content,
     target_time |-> fromisoformat(d.target_time)
                        - (fromisoformat(d.target_time) % 60),
     repeat_type |-> IF "repeat_type" \in DOMAIN d THEN d.repeat_type ELSE "none",
     active |-> IF "active" \in DOMAIN d THEN d.active ELSE TRUE,
     created_at |-> fromisoformat(d.created_at)]

\* a from_dict that would read repeat_type and active with data[...] too
DecodableAllKeys(d) == RequiredKeys \cup {"repeat_type", "active"} \subseteq DOMAIN d

\* from_dict(d) returns: no data[...] of it raises KeyError
Decodable(d) == RequiredKeys \subseteq DOMAIN d

\* Reminder.from_dict: data.get('repeat_type', '不重复'), data.get('active',
\* True), data[...] for the rest; a key it does not name is not read.  The
\* plugin keeps the dict of the file and reads these two keys with the same
\* .get defaults wherever it uses them (main.py 35, 525, 644, 754), and the
\* instants with fromisoformat (main.py 37, 507, 655).
from_dict(d) ==
    [id |-> d.id, sender_id |-> d.sender_id, target_id |-> d.target_id,
     target_type |-> d.target_type, content |-> d.content,
     target_time |-> fromisoformat(d.target_time),
     repeat_type |-> IF "repeat_type" \in DOMAIN d THEN d.repeat_type ELSE "none",
     active |-> IF "active" \in DOMAIN d THEN d.active ELSE TRUE,
     created_at |-> fromisoformat(d.created_at)]

\* _save_reminders: the whole store is written to data_file, the records in
\* store order (json.dump of the dict of to_dict records; the plugin's dicts
\* hold the isoformat text already)
Save(m) ==
    [m EXCEPT !.file = [i \in 1..Len(m.reminders) |->
                           to_dict(m.objs[m.reminders[i].ref])]]

\* data_file holds a whole JSON document: no write of it was cut short
IsDocument(f) == \A i \in 1..Len(f) : "cut" \notin DOMAIN f[i]

\* a load that would enumerate the document from its end
LoadedReversed(f) ==
    IF IsDocument(f) /\ \A i \in 1..Len(f) : Decodable(f[i])
    THEN [i \in 1..Len(f) |-> from_dict(f[Len(f) + 1 - i])]
    ELSE << >>

\* what _load_reminders leaves in self.reminders: the records of the document
\* in its order; {} when json.load or from_dict raised (except Exception)
Loaded(f) ==
    IF IsDocument(f) /\ \A i \in 1..Len(f) : Decodable(f[i])
    THEN [i \in 1..Len(f) |-> from_dict(f[i])]
    ELSE << >>

\* _load_reminders in a new instance: the store is the records of data_file,
\* each a new object; no task exists yet
Load(m) ==
    LET recs == Loaded(m.file)
        n == IF Len(recs) > Len(m.objs) THEN Len(recs) ELSE Len(m.objs)
    IN  [m EXCEPT
           !.objs = [r \in 1..n |-> IF r <= Len(recs) THEN recs[r] ELSE Freed],
           !.delivered = [r \in 1..n |-> NoDelivery],
           !.reminders = [i \in 1..Len(recs) |-> [id |-> recs[i].id, ref |-> i]],
           !.running_tasks = [x \in {} |-> 0],
           !.tasks = [x \in {} |-> 0]]

\* the last thing that happened (history, read by the properties only):
\* op, the reminder id, the task, the stored fire time the firing began at,
\* the number of delivery attempts made, the recurrence, the delivery outcome
\* (for a user command: the kind of reply the caller gets);
\* begun: the step took a task from its sleep into a firing; act: the record
\* of rid was in the store and active when the step began; write: how the
\* _save_reminders of the step went ("ok" also when it made none)
Ev(op, rid, h, F, k, repeat, outcome) ==
    [op |-> op, rid |-> rid, h |-> h, F |-> F, k |-> k, repeat |-> repeat,
     outcome |-> outcome, begun |-> FALSE, act |-> FALSE, write |-> "ok"]

\* an index error that also forgets the live timers
BadIndexDropsTimers(m) ==
    [m EXCEPT !.running_tasks = [x \in {} |-> 0],
              !.ev = Ev("badindex", NoId, 0, NoTime, 0, "", "notfound")]

\* the else branch of `if 0 <= index < len(user_reminders)`: the reply
\* "no such reminder number", nothing else
BadIndex(m) == [m EXCEPT !.ev = Ev("badindex", NoId, 0, NoTime, 0, "", "notfound")]

\* a past-time test that lets the present instant through
IsPastStrict(target_time) == target_time < now

\* `if target_time <= datetime.now()`: the parsed time is not in the future
IsPast(target_time) == target_time <= now

\* the id a create builds from the sender and the clock second
MakeId(sender_id) == <<sender_id, now>>

\* the new record; the command arrives in the sender's private chat
\* (launcher_id is the sender) and its content is the one text Content
NewObj(rid, sender_id, target_time, repeat_type) ==
    [id |-> rid, sender_id |-> sender_id, target_id |-> sender_id,
     target_type |-> "person", content |-> Content, target_time |-> target_time,
     repeat_type |-> repeat_type, active |-> TRUE, created_at |-> now]

\* ------------------------------------------------------------- recurrence
\* the next fire time: NoTime for ValueError of datetime.replace
MonthlyNext(t) ==
    LET d == DateOf(t)
    IN  IF d[2] = 12 THEN ReplaceMonth(t, d[1] + 1, 1)
        ELSE ReplaceMonth(t, d[1], d[2] + 1)

\* -------------------------------------------------- ReminderPlugin (main.py)
\* _schedule_reminder(reminder_id, reminder_data): a new task that sleeps for
\* delay seconds; the table entry is overwritten, the task it held is left alone
PluginSchedule(m, reminder_id, ref) ==
    LET target_time == m.objs[ref].target_time
        delay == target_time - now
        h == NewHandle(m)
    IN  IF delay > 0
        THEN [m EXCEPT
                !.tasks = [x \in DOMAIN m.tasks \cup {h} |->
                             IF x = h
                             THEN [rid |-> reminder_id, ref |-> 0, pc |-> "sleep",
                                   attempt |-> 0, wake |-> now + delay, F |-> NoTime]
                             ELSE m.tasks[x]],
                !.running_tasks = RtPut(m.running_tasks, reminder_id, h)]
        ELSE m

\* the next fire time _handle_repeat_reminder computes: NoTime when
\* datetime.replace raises ValueError or the repeat type is none of the three
NextTime(repeat_type, current_time) ==
    IF repeat_type = "daily" THEN current_time + Day
    ELSE IF repeat_type = "weekly" THEN current_time + Week
    ELSE IF repeat_type = "monthly" THEN MonthlyNext(current_time)
    ELSE NoTime

\* a recurrence step that leaves a fired one-shot reminder where it is
HandleRepeatKeepsOneShot(m, reminder_id, ref) ==
    LET repeat_type == m.objs[ref].repeat_type
        next_time == NextTime(repeat_type, m.objs[ref].target_time)
    IN  IF repeat_type = "none" \/ next_time = NoTime
        THEN m
        ELSE PluginSchedule(Save([m EXCEPT !.objs[ref].target_time = next_time]),
                            reminder_id, ref)

\* _handle_repeat_reminder(reminder_id, reminder_data)
PluginHandleRepeat(m, reminder_id, ref) ==
    LET repeat_type == m.objs[ref].repeat_type
        next_time == NextTime(repeat_type, m.objs[ref].target_time)
    IN  IF repeat_type = "none"
        THEN IF Has(m.reminders, reminder_id)
             THEN LET m1 == Save([m EXCEPT !.reminders = Del(m.reminders, reminder_id)])
                  IN  [m1 EXCEPT !.running_tasks = RtDel(m.running_tasks, reminder_id)]
             ELSE m
        ELSE IF next_time = NoTime
             THEN m
             ELSE PluginSchedule(Save([m EXCEPT !.objs[ref].target_time = next_time]),
                                 reminder_id, ref)

\* the firing task returns: recurrence handling, then the task is over
PluginFinish(m, t, outcome) ==
    LET task == m.tasks[t]
        m1 == PluginHandleRepeat(m, task.rid, task.ref)
    IN  [m1 EXCEPT !.tasks = TaskDrop(m1.tasks, t),
                   !.ev = Ev("fired", task.rid, t, task.F, task.attempt + 1,
                             m.objs[task.ref].repeat_type, outcome)]

\* a wait that does not grow with the attempt number
FlatWaitTime(attempt) == BackoffUnit

\* the wait before the next attempt
WaitTime(attempt) == BackoffUnit * (attempt + 1)

\* _send_reminder_message raised in attempt number `attempt` (counted from 0)
PluginAttemptFailed(m, t, attempt) ==
    IF attempt < max_retries - 1
    THEN [m EXCEPT !.tasks[t].pc = "backoff",
                   !.tasks[t].attempt = attempt,
                   !.tasks[t].wake = now + WaitTime(attempt),
                   !.ev = Ev("backoff", m.tasks[t].rid, t, m.tasks[t].F, attempt + 1,
                             m.objs[m.tasks[t].ref].repeat_type, "fail")]
    ELSE PluginFinish([m EXCEPT !.tasks[t].attempt = attempt], t, "exhausted")

\* attempt number `attempt` calls _send_reminder_message: it suspends in the
\* host's is_connected/send ("await"), or raises at once for want of an adapter
PluginBeginAttempt(m, t, attempt, out) ==
    IF out = "await"
    THEN [m EXCEPT !.tasks[t].pc = "send",
                   !.tasks[t].attempt = attempt,
                   !.ev = Ev("send", m.tasks[t].rid, t, m.tasks[t].F, attempt + 1,
                             m.objs[m.tasks[t].ref].repeat_type, "")]
    ELSE PluginAttemptFailed(m, t, attempt)

\* a successful send of the reminder the task holds (history: per object, the
\* stored fire time last delivered for and the number of deliveries for it)
Deliver(m, t) ==
    LET ref == m.tasks[t].ref
        F == m.objs[ref].target_time
        d == m.delivered[ref]
    IN  [m EXCEPT !.delivered[ref] =
            IF d.F = F THEN [F |-> F, n |-> d.n + 1] ELSE [F |-> F, n |-> 1]]

\* a selection that leaves the sender test out: every reminder of the store
EveryonesReminders(m, sender_id) == m.reminders

\* the caller's reminders, in store order (paused ones included)
UserReminders(m, sender_id) ==
    SelectSeq(m.reminders, LAMBDA e : m.objs[e.ref].sender_id = sender_id)

\* _handle_list_reminders of ReminderPlugin: the caller's active reminders,
\* numbered from 1 in store order
PluginListReminders(m, sender_id) ==
    SelectSeq(m.reminders, LAMBDA e : /\ m.objs[e.ref].sender_id = sender_id
                                      /\ m.objs[e.ref].active)

\* MessageHandler._handle_list_reminders: get_user_reminders(sender_id), all
\* the caller's reminders, numbered from 1 in store order
ManagerListReminders(m, sender_id) ==
    SelectSeq(m.reminders, LAMBDA e : m.objs[e.ref].sender_id = sender_id)

\* the test a woken task makes: the reminder is still there and active
IsLive(m, reminder_id) ==
    Has(m.reminders, reminder_id) /\ m.objs[RefOf(m.reminders, reminder_id)].active

\* set_reminder_llm, from the parsed target_time on
PluginSetReminder(m, sender_id, target_time, repeat_type) ==
    IF target_time = NoTime \/ IsPast(target_time)
    THEN [m EXCEPT !.ev = Ev("createfail", NoId, 0, NoTime, 0, "", "failed")]
    ELSE LET reminder_id == MakeId(sender_id)
             ref == Len(m.objs) + 1
             m1 == Save([m EXCEPT
                      !.objs = Append(m.objs, NewObj(reminder_id, sender_id,
                                                     target_time, repeat_type)),
                      !.delivered = Append(m.delivered, NoDelivery),
                      !.reminders = Put(m.reminders, reminder_id, ref)])
             m2 == PluginSchedule(m1, reminder_id, ref)
         IN  [m2 EXCEPT !.ev = Ev("create", reminder_id, 0, target_time,
                                  Len(m.reminders), repeat_type, "ok")]

\* _handle_delete_reminder with the number n the user typed
PluginDeleteReminder(m, sender_id, n) ==
    LET index == n - 1
        user_reminders == UserReminders(m, sender_id)
    IN  IF 0 <= index /\ index < Len(user_reminders)
        THEN LET reminder_id == user_reminders[index + 1].id
                 ref == user_reminders[index + 1].ref
                 rt == m.running_tasks
             IN  [Save([m EXCEPT !.reminders = Del(m.reminders, reminder_id)]) EXCEPT
                    !.tasks = IF reminder_id \in DOMAIN rt
                              THEN Cancel(m.tasks, rt[reminder_id]) ELSE m.tasks,
                    !.running_tasks = RtDel(rt, reminder_id),
                    !.ev = Ev("delete", reminder_id,
                              IF reminder_id \in DOMAIN rt THEN rt[reminder_id] ELSE 0,
                              m.objs[ref].target_time, 0, m.objs[ref].repeat_type, "ok")]
        ELSE BadIndex(m)

\* _toggle_reminder with the number n the user typed
PluginToggleReminder(m, sender_id, n, active) ==
    LET index == n - 1
        user_reminders == UserReminders(m, sender_id)
    IN  IF 0 <= index /\ index < Len(user_reminders)
        THEN LET reminder_id == user_reminders[index + 1].id
                 ref == user_reminders[index + 1].ref
                 rt == m.running_tasks
                 e(op) == Ev(op, reminder_id,
                             IF reminder_id \in DOMAIN rt THEN rt[reminder_id] ELSE 0,
                             m.objs[ref].target_time, 0, m.objs[ref].repeat_type, "ok")
             IN  IF active /\ ~m.objs[ref].active
                 THEN [PluginSchedule(Save([m EXCEPT !.objs[ref].active = TRUE]),
                                      reminder_id, ref)
                        EXCEPT !.ev = e("resume")]
                 ELSE IF ~active /\ m.objs[ref].active
                 THEN [Save([m EXCEPT !.objs[ref].active = FALSE]) EXCEPT
                         !.tasks = IF reminder_id \in DOMAIN rt
                                   THEN Cancel(m.tasks, rt[reminder_id]) ELSE m.tasks,
                         !.running_tasks = RtDel(rt, reminder_id),
                         !.ev = e("pause")]
                 ELSE [m EXCEPT !.ev = Ev("noop", NoId, 0, NoTime, 0, "", "already")]
        ELSE BadIndex(m)

\* ------------------------------- ReminderManager, MessageHandler (src/src)
\* ReminderManager._schedule_reminder(reminder): the task holds the Reminder
\* object and sleeps until the target_time the object has when the task starts
ManagerSchedule(m, ref) ==
    LET reminder == m.objs[ref]
        delay == reminder.target_time - now
        h == NewHandle(m)
    IN  IF delay > 0
        THEN [m EXCEPT
                !.tasks = [x \in DOMAIN m.tasks \cup {h} |->
                             IF x = h
                             THEN [rid |-> reminder.id, ref |-> ref, pc |-> "sleep",
                                   attempt |-> 0, wake |-> reminder.target_time,
                                   F |-> NoTime]
                             ELSE m.tasks[x]],
                !.running_tasks = RtPut(m.running_tasks, reminder.id, h)]
        ELSE m

\* ReminderManager._handle_repeat_reminder(reminder)
ManagerHandleRepeat(m, ref) ==
    LET reminder == m.objs[ref]
        next_time == NextTime(reminder.repeat_type, reminder.target_time)
    IN  IF reminder.repeat_type = "none"
        THEN IF Has(m.reminders, reminder.id)
             THEN LET m1 == Save([m EXCEPT !.reminders = Del(m.reminders, reminder.id)])
                  IN  [m1 EXCEPT !.running_tasks = RtDel(m.running_tasks, reminder.id)]
             ELSE m
        ELSE IF next_time = NoTime
             THEN m
             ELSE ManagerSchedule(Save([m EXCEPT !.objs[ref].target_time = next_time]),
                                  ref)

\* ReminderManager.create_reminder, from the parsed target_time on
ManagerCreateReminder(m, sender_id, target_time, repeat_type) ==
    IF target_time = NoTime \/ IsPast(target_time)
    THEN [m EXCEPT !.ev = Ev("createfail", NoId, 0, NoTime, 0, "", "failed")]
    ELSE LET reminder_id == MakeId(sender_id)
             ref == Len(m.objs) + 1
             m1 == Save([m EXCEPT
                      !.objs = Append(m.objs, NewObj(reminder_id, sender_id,
                                                     target_time, repeat_type)),
                      !.delivered = Append(m.delivered, NoDelivery),
                      !.reminders = Put(m.reminders, reminder_id, ref)])
             m2 == ManagerSchedule(m1, ref)
         IN  [m2 EXCEPT !.ev = Ev("create", reminder_id, 0, target_time,
                                  Len(m.reminders), repeat_type, "ok")]

\* ReminderManager.delete_reminder(reminder_id), reached from
\* MessageHandler._handle_delete_reminder with the number n the user typed
ManagerDeleteReminder(m, sender_id, n) ==
    LET index == n - 1
        user_reminders == UserReminders(m, sender_id)
    IN  IF 0 <= index /\ index < Len(user_reminders)
        THEN LET reminder_id == m.objs[user_reminders[index + 1].ref].id
                 ref == user_reminders[index + 1].ref
                 rt == m.running_tasks
             IN  [Save([m EXCEPT !.reminders = Del(m.reminders, reminder_id)]) EXCEPT
                    !.tasks = IF reminder_id \in DOMAIN rt
                              THEN Cancel(m.tasks, rt[reminder_id]) ELSE m.tasks,
                    !.running_tasks = RtDel(rt, reminder_id),
                    !.ev = Ev("delete", reminder_id,
                              IF reminder_id \in DOMAIN rt THEN rt[reminder_id] ELSE 0,
                              m.objs[ref].target_time, 0, m.objs[ref].repeat_type, "ok")]
        ELSE BadIndex(m)

\* ReminderManager.toggle_reminder(reminder_id, active), reached from
\* MessageHandler._toggle_reminder with the number n the user typed
ManagerToggleReminder(m, sender_id, n, active) ==
    LET index == n - 1
        user_reminders == UserReminders(m, sender_id)
    IN  IF 0 <= index /\ index < Len(user_reminders)
        THEN LET ref == user_reminders[index + 1].ref
                 reminder_id == m.objs[ref].id
                 rt == m.running_tasks
                 e(op) == Ev(op, reminder_id,
                             IF reminder_id \in DOMAIN rt THEN rt[reminder_id] ELSE 0,
                             m.objs[ref].target_time, 0, m.objs[ref].repeat_type, "ok")
             IN  IF m.objs[ref].active # active
                 THEN IF active
                      THEN [ManagerSchedule(Save([m EXCEPT !.objs[ref].active = TRUE]),
                                            ref)
                             EXCEPT !.ev = e("resume")]
                      ELSE [Save([m EXCEPT !.objs[ref].active = FALSE]) EXCEPT
                              !.tasks = IF reminder_id \in DOMAIN rt
                                        THEN Cancel(m.tasks, rt[reminder_id])
                                        ELSE m.tasks,
                              !.running_tasks = RtDel(rt, reminder_id),
                              !.ev = e("pause")]
                 ELSE [m EXCEPT !.ev = Ev("noop", NoId, 0, NoTime, 0, "", "failed")]
        ELSE BadIndex(m)

\* ReminderManager._reminder_task: the sleep is over; recurrence handling
\* follows at once, no delivery is made
ManagerFire(m, t) ==
    LET task == m.tasks[t]
        rid == task.rid
        m1 == ManagerHandleRepeat(m, task.ref)
    IN  [m1 EXCEPT !.tasks = TaskDrop(m1.tasks, t),
                   !.ev = Ev("fired", rid, t,
                             m.objs[RefOf(m.reminders, rid)].target_time, 0,
                             m.objs[task.ref].repeat_type, "nodelivery")]

\* ------------------------------------------------------------- recovery
\* a recovery that schedules every record, paused ones included
RECURSIVE RestoreAll(_, _)
RestoreAll(m, i) ==
    IF i > Len(m.reminders) THEN m
    ELSE LET e == m.reminders[i]
         IN  RestoreAll(IF m.objs[e.ref].target_time > now
                        THEN PluginSchedule(m, e.id, e.ref) ELSE m, i + 1)

\* the loop of ReminderPlugin.initialize from the i-th record of the store on:
\* an active record whose target_time is in the future is scheduled, any
\* other record is left as it is
RECURSIVE PluginRestore(_, _)
PluginRestore(m, i) ==
    IF i > Len(m.reminders) THEN m
    ELSE LET e == m.reminders[i]
             reminder_data == m.objs[e.ref]
         IN  PluginRestore(IF reminder_data.active /\ reminder_data.target_time > now
                           THEN PluginSchedule(m, e.id, e.ref) ELSE m, i + 1)

\* ReminderPlugin.initialize
PluginInitialize(m) == PluginRestore(Load(m), 1)

\* the loop of ReminderManager.initialize from the i-th record on
RECURSIVE ManagerRestore(_, _)
ManagerRestore(m, i) ==
    IF i > Len(m.reminders) THEN m
    ELSE LET reminder == m.objs[m.reminders[i].ref]
         IN  ManagerRestore(IF reminder.active /\ reminder.target_time > now
                            THEN ManagerSchedule(m, m.reminders[i].ref) ELSE m, i + 1)

\* ReminderManager.initialize
ManagerInitialize(m) == ManagerRestore(Load(m), 1)

\* ----------------------------------------------------------------- actions
FiringPcs == {"send", "backoff"}
TimerPcs == {"sleep", "backoff"}
Indexes == 0..(MaxObjs + 1)

\* the id is Firing: a task of it is past its timer and not yet over
Firing(id) == \E t \in DOMAIN tasks : tasks[t].rid = id /\ tasks[t].pc \in FiringPcs

\* the user's deletes and pauses that arrived while the id was Firing
IssuedAfter(e) ==
    IF e.op = "delete"
    THEN (issued \ {<<e.rid, "pause">>})
         \cup (IF Firing(e.rid) THEN {<<e.rid, "delete">>} ELSE {})
    ELSE IF e.op = "pause"
    THEN issued \cup (IF Firing(e.rid) THEN {<<e.rid, "pause">>} ELSE {})
    ELSE IF e.op = "resume" THEN issued \ {<<e.rid, "pause">>}
    ELSE issued

\* a user command, handled by the running process
Command(m) ==
    /\ up
    /\ Commit(m)
    /\ issued' = IssuedAfter(m.ev)
    /\ UNCHANGED <<impl, now, nticks, up>>

\* a step of a timer task
TaskStep(m) ==
    /\ Commit(m)
    /\ UNCHANGED <<impl, now, issued, nticks, up>>

\* a scenario holds at most MaxObjs creates, and at most MaxWork creates and
\* clock advances together
CanCreate == Len(objs) < MaxObjs /\ Len(objs) + nticks < MaxWork

\* what the time parser returns for the user's text: nothing (NoTime), or an
\* instant at one of the offsets from now
ParseResults == {NoTime} \cup {now + d : d \in Delays}

PluginCreate(sender_id, target_time, repeat_type) ==
    /\ impl = "plugin"
    /\ CanCreate
    /\ Command(PluginSetReminder(Cur, sender_id, target_time, repeat_type))

PluginDelete(sender_id, n) ==
    /\ impl = "plugin"
    /\ Command(PluginDeleteReminder(Cur, sender_id, n))

PluginToggle(sender_id, n, active) ==
    /\ impl = "plugin"
    /\ Command(PluginToggleReminder(Cur, sender_id, n, active))

\* _reminder_task: the sleep is over
PluginExpire(t, out) ==
    /\ impl = "plugin"
    /\ tasks[t].pc = "sleep"
    /\ tasks[t].wake <= now
    /\ LET rid == tasks[t].rid
           act == Has(reminders, rid) /\ objs[RefOf(reminders, rid)].active
       IN  IF IsLive(Cur, rid)
           THEN LET ref == RefOf(reminders, rid)
                    m1 == [Cur EXCEPT !.tasks[t].ref = ref,
                                      !.tasks[t].F = objs[ref].target_time]
                    m2 == PluginBeginAttempt(m1, t, 0, out)
                IN  TaskStep([m2 EXCEPT !.ev.begun = TRUE, !.ev.act = act])
           ELSE /\ out = "await"
                /\ TaskStep([Cur EXCEPT !.tasks = TaskDrop(tasks, t),
                                        !.ev = Ev("skip", rid, t, NoTime, 0, "", "")])

\* _send_reminder_message returned or raised.  While the task is in "send" it
\* is suspended in one of the awaits of _send_reminder_message: is_connected,
\* send_active_message, the 2 s sleep of the ApiNotAvailable path or its second
\* send_active_message; the call as a whole succeeds or raises.
PluginSendDone(t, res) ==
    /\ impl = "plugin"
    /\ tasks[t].pc = "send"
    /\ TaskStep(IF res = "ok" THEN PluginFinish(Deliver(Cur, t), t, "ok")
                ELSE PluginAttemptFailed(Cur, t, tasks[t].attempt))

\* the backoff wait is over: the next attempt
PluginBackoffWake(t, out) ==
    /\ impl = "plugin"
    /\ tasks[t].pc = "backoff"
    /\ tasks[t].wake <= now
    /\ TaskStep(PluginBeginAttempt(Cur, t, tasks[t].attempt + 1, out))

ManagerCreate(sender_id, target_time, repeat_type) ==
    /\ impl = "manager"
    /\ CanCreate
    /\ Command(ManagerCreateReminder(Cur, sender_id, target_time, repeat_type))

ManagerDelete(sender_id, n) ==
    /\ impl = "manager"
    /\ Command(ManagerDeleteReminder(Cur, sender_id, n))

ManagerToggle(sender_id, n, active) ==
    /\ impl = "manager"
    /\ Command(ManagerToggleReminder(Cur, sender_id, n, active))

ManagerExpire(t) ==
    /\ impl = "manager"
    /\ tasks[t].pc = "sleep"
    /\ tasks[t].wake <= now
    /\ LET rid == tasks[t].rid
           act == Has(reminders, rid) /\ objs[RefOf(reminders, rid)].active
       IN  IF IsLive(Cur, rid)
           THEN TaskStep([ManagerFire(Cur, t) EXCEPT !.ev.begun = TRUE, !.ev.act = act])
           ELSE TaskStep([Cur EXCEPT !.tasks = TaskDrop(tasks, t),
                                     !.ev = Ev("skip", rid, t, NoTime, 0, "", "")])

\* the clock: a second passes, or the time until the next timer is due; a
\* timer that is due is served before the clock moves on
Tick(n) ==
    /\ Len(objs) + nticks < MaxWork
    /\ n > now
    /\ \A t \in DOMAIN tasks : tasks[t].pc \in TimerPcs => n <= tasks[t].wake
    /\ now' = n
    /\ nticks' = nticks + 1
    /\ ev' = Ev("tick", NoId, 0, NoTime, 0, "", "")
    /\ UNCHANGED <<impl, objs, reminders, running_tasks, tasks, delivered, issued,
                   file, up>>

\* the process stops: its tasks and its memory are gone, data_file stays
Stop ==
    /\ up
    /\ up' = FALSE
    /\ Commit([Cur EXCEPT !.reminders = << >>,
                          !.running_tasks = [x \in {} |-> 0],
                          !.tasks = [x \in {} |-> 0],
                          !.ev = Ev("stop", NoId, 0, NoTime, 0, "", "")])
    /\ issued' = {}
    /\ UNCHANGED <<impl, now, nticks>>

\* the process starts: a new instance, then initialize()
Start ==
    /\ ~up
    /\ up' = TRUE
    /\ LET m == IF impl = "plugin" THEN PluginInitialize(Cur)
                ELSE ManagerInitialize(Cur)
       IN  Commit([m EXCEPT !.ev = Ev("start", NoId, 0, NoTime, 0, "", "")])
    /\ UNCHANGED <<impl, now, issued, nticks>>

NextTimes == {now + 1} \cup {tasks[t].wake : t \in DOMAIN tasks}

Init ==
    /\ impl \in Impls
    /\ now = StartNow
    /\ objs = << >>
    /\ reminders = << >>
    /\ running_tasks = [x \in {} |-> 0]
    /\ tasks = [x \in {} |-> 0]
    /\ delivered = << >>
    /\ ev = Ev("init", NoId, 0, NoTime, 0, "", "")
    /\ issued = {}
    /\ nticks = 0
    /\ file = << >>
    /\ up = TRUE

Next ==
    \/ \E s \in Senders, tt \in ParseResults, r \in RepeatTypes : PluginCreate(s, tt, r)
    \/ \E s \in Senders, n \in Indexes : PluginDelete(s, n)
    \/ \E s \in Senders, n \in Indexes, a \in BOOLEAN : PluginToggle(s, n, a)
    \/ \E t \in DOMAIN tasks, out \in {"await", "raise"} : PluginExpire(t, out)
    \/ \E t \in DOMAIN tasks, res \in {"ok", "fail"} : PluginSendDone(t, res)
    \/ \E t \in DOMAIN tasks, out \in {"await", "raise"} : PluginBackoffWake(t, out)
    \/ \E s \in Senders, tt \in ParseResults, r \in RepeatTypes : ManagerCreate(s, tt, r)
    \/ \E s \in Senders, n \in Indexes : ManagerDelete(s, n)
    \/ \E s \in Senders, n \in Indexes, a \in BOOLEAN : ManagerToggle(s, n, a)
    \/ \E t \in DOMAIN tasks : ManagerExpire(t)
    \/ \E n \in NextTimes : Tick(n)
    \/ Stop
    \/ Start

Spec == Init /\ [][Next]_vars

\* ------------------------------------------------------------- two owners
\* Two users send commands to one process: each creates, deletes, pauses and
\* resumes by the numbers of their own list, while the timers run.
Owners == {"u1", "u2"}

OwnerNext ==
    \/ \E s \in Owners, r \in {"none", "daily"} : PluginCreate(s, now + 1, r)
    \/ \E s \in Owners, n \in Indexes : PluginDelete(s, n)
    \/ \E s \in Owners, n \in Indexes, a \in BOOLEAN : PluginToggle(s, n, a)
    \/ \E t \in DOMAIN tasks : PluginExpire(t, "await")
    \/ \E t \in DOMAIN tasks : PluginSendDone(t, "ok")
    \/ \E s \in Owners, r \in {"none", "daily"} : ManagerCreate(s, now + 1, r)
    \/ \E s \in Owners, n \in Indexes : ManagerDelete(s, n)
    \/ \E s \in Owners, n \in Indexes, a \in BOOLEAN : ManagerToggle(s, n, a)
    \/ \E t \in DOMAIN tasks : ManagerExpire(t)
    \/ \E n \in NextTimes : Tick(n)

OwnerSpec == Init /\ [][OwnerNext]_vars

\* ------------------------------------------------------- the process at work
\* One user creates, pauses and resumes reminder #1 and the process is stopped
\* and started, while the event loop runs what is ready: time passes, a timer
\* whose sleep is over wakes, a send that was begun returns.  The user and the
\* operator owe the program nothing, so only the loop's steps are fair.
TimePasses == \E n \in NextTimes : Tick(n)

TimerWakes == \E t \in DOMAIN tasks : PluginExpire(t, "await")

SendReturns == \E t \in DOMAIN tasks : PluginSendDone(t, "ok")

ManagerWakes == \E t \in DOMAIN tasks : ManagerExpire(t)

\* a task is suspended in _send_reminder_message: SendReturns can happen
Sending == impl = "plugin" /\ \E t \in DOMAIN tasks : tasks[t].pc = "send"

\* the sleep of a ReminderManager task is over: ManagerWakes can happen
ManagerDue ==
    impl = "manager" /\ \E t \in DOMAIN tasks : tasks[t].pc = "sleep" /\ tasks[t].wake <= now

LiveNext ==
    \/ \E r \in {"none", "daily"} : PluginCreate("u1", now + 1, r)
    \/ \E a \in BOOLEAN : PluginToggle("u1", 1, a)
    \/ \E r \in {"none", "daily"} : ManagerCreate("u1", now + 1, r)
    \/ \E a \in BOOLEAN : ManagerToggle("u1", 1, a)
    \/ TimerWakes
    \/ SendReturns
    \/ ManagerWakes
    \/ TimePasses
    \/ Stop
    \/ Start

\* weak fairness of the four steps of the loop; for SendReturns and
\* ManagerWakes it is written out, with the step's guard where WF_ has ENABLED
LiveSpec ==
    /\ Init /\ [][LiveNext]_vars
    /\ WF_vars(TimePasses)
    /\ WF_vars(TimerWakes)
    /\ ([]<>~Sending \/ []<><<SendReturns>>_vars)
    /\ ([]<>~ManagerDue \/ []<><<ManagerWakes>>_vars)

\* ---------------------------------------- the store over an earlier data_file
\* The process starts over a data_file that an earlier run or an earlier
\* version wrote, and serves start, stop, create, delete and pause/resume; a
\* write of data_file can fail, the process can die in the middle of one, and
\* the read of data_file at startup can fail.

\* a JSON document of which only the first k records and a broken rest reached
\* data_file: open(data_file, 'w') emptied the file and json.dump did not finish
Cut(f, k) == SubSeq(f, 1, k) \o <<[cut |-> TRUE]>>

\* the handler called _save_reminders
Saves(m) == m.ev.op \in {"delete", "pause", "resume"}

\* _save_reminders raised inside the handler and logged it ("except Exception"):
\* w = "open": open() raised, data_file is as it was; w = "dump": json.dump
\* raised after k records.  The handler goes on as after a good write.
WriteFault(m, w, k) ==
    [m EXCEPT !.file = IF w = "open" THEN file ELSE Cut(m.file, k),
              !.ev.write = w]

WriteFaults == {"open", "dump"}

DeleteHandler(sender_id, n) ==
    IF impl = "plugin" THEN PluginDeleteReminder(Cur, sender_id, n)
    ELSE ManagerDeleteReminder(Cur, sender_id, n)

ToggleHandler(sender_id, n, active) ==
    IF impl = "plugin" THEN PluginToggleReminder(Cur, sender_id, n, active)
    ELSE ManagerToggleReminder(Cur, sender_id, n, active)

\* a delete whose write of data_file fails
DeleteSaveFails(sender_id, n, w, k) ==
    LET m == DeleteHandler(sender_id, n)
    IN  /\ Saves(m)
        /\ k <= Len(m.file)
        /\ w = "open" => k = 0
        /\ Command(WriteFault(m, w, k))

\* a pause or resume whose write of data_file fails
ToggleSaveFails(sender_id, n, active, w, k) ==
    LET m == ToggleHandler(sender_id, n, active)
    IN  /\ Saves(m)
        /\ k <= Len(m.file)
        /\ w = "open" => k = 0
        /\ Command(WriteFault(m, w, k))

\* the process dies (kill, power loss) inside the _save_reminders of a delete
\* or a pause/resume, after open() emptied data_file and k records were written
Crash(sender_id, n, active, k) ==
    /\ up
    /\ \E m \in {DeleteHandler(sender_id, n), ToggleHandler(sender_id, n, active)} :
          /\ Saves(m)
          /\ k <= Len(m.file)
          /\ Commit([Cur EXCEPT !.reminders = << >>,
                                !.running_tasks = [x \in {} |-> 0],
                                !.tasks = [x \in {} |-> 0],
                                !.file = Cut(m.file, k),
                                !.ev = [Ev("crash", m.ev.rid, 0, NoTime, 0, "", "")
                                          EXCEPT !.write = "dump"]])
    /\ up' = FALSE
    /\ issued' = {}
    /\ UNCHANGED <<impl, now, nticks>>

\* the process starts and _load_reminders raises before it has the document
\* (open() or the read fails): "except Exception" logs it and leaves
\* self.reminders = {}; data_file is as it was; initialize() goes on
StartLoadFails ==
    /\ ~up
    /\ up' = TRUE
    /\ Commit([Load([Cur EXCEPT !.file = Cut(file, 0)]) EXCEPT
                  !.file = file,
                  !.ev = Ev("loadfail", NoId, 0, NoTime, 0, "", "")])
    /\ UNCHANGED <<impl, now, issued, nticks>>

\* a record of data_file: the seven keys every version wrote, and repeat_type,
\* active and a key this version does not know ("note") where the writer put them
Dict(rid, target_id, target_type, content, target_time, keys, repeat_type, active) ==
    [k \in RequiredKeys \cup keys |->
        CASE k = "id" -> rid
          [] k = "sender_id" -> rid[1]
          [] k = "target_id" -> target_id
          [] k = "target_type" -> target_type
          [] k = "content" -> content
          [] k = "target_time" -> isoformat(target_time)
          [] k = "created_at" -> isoformat(rid[2])
          [] k = "repeat_type" -> repeat_type
          [] k = "active" -> active
          [] k = "note" -> "x"]

\* the first record of a file: written by any version
OldDicts ==
    {Dict(<<"u1", StartNow - 20>>, "u1", "person", Content, StartNow + 1, keys, r, a) :
        keys \in SUBSET {"repeat_type", "active", "note"},
        r \in {"none", "daily"}, a \in BOOLEAN}

\* the second record: written by this version
NewDicts ==
    {Dict(<<"u1", StartNow - 10>>, tg[1], tg[2], c, tt, {"repeat_type", "active"},
          "none", a) :
        tg \in {<<"u1", "person">>, <<"g1", "group">>}, c \in {Content, "d"},
        tt \in {StartNow + 61}, a \in BOOLEAN}

DataFiles ==
    {<< >>} \cup {<<d>> : d \in OldDicts} \cup {<<d, e>> : d \in OldDicts, e \in NewDicts}

StoreInit ==
    /\ impl \in Impls
    /\ now = StartNow
    /\ objs = << >>
    /\ reminders = << >>
    /\ running_tasks = [x \in {} |-> 0]
    /\ tasks = [x \in {} |-> 0]
    /\ delivered = << >>
    /\ ev = Ev("init", NoId, 0, NoTime, 0, "", "")
    /\ issued = {}
    /\ nticks = 0
    /\ file \in DataFiles
    /\ up = FALSE

StoreNext ==
    \/ Start
    \/ Stop
    \/ \E s \in Senders, n \in Indexes : PluginDelete(s, n)
    \/ \E s \in Senders, n \in Indexes, a \in BOOLEAN : PluginToggle(s, n, a)
    \/ \E s \in Senders, n \in Indexes : ManagerDelete(s, n)
    \/ \E s \in Senders, n \in Indexes, a \in BOOLEAN : ManagerToggle(s, n, a)
    \/ \E s \in Senders, n \in Indexes, w \in WriteFaults, k \in 0..MaxObjs :
          DeleteSaveFails(s, n, w, k)
    \/ \E s \in Senders, n \in Indexes, a \in BOOLEAN, w \in WriteFaults,
          k \in 0..MaxObjs : ToggleSaveFails(s, n, a, w, k)
    \/ \E s \in Senders, n \in Indexes, a \in BOOLEAN, k \in 0..MaxObjs :
          Crash(s, n, a, k)
    \/ StartLoadFails
    \/ \E s \in Senders, r \in {"none", "daily"} : PluginCreate(s, now + 2, r)
    \/ \E s \in Senders, r \in {"none", "daily"} : ManagerCreate(s, now + 2, r)

StoreSpec == StoreInit /\ [][StoreNext]_vars

\* -------------------------------------------------------------- time parser
\* TimeParser (src/src/reminder/utils/time_parser.py); ReminderPlugin carries
\* the same functions (src/main.py 213-502).  A text is the sequence of its
\* characters.  A character that is not ASCII is written by a name:
\*   n0 零  n1 一  n2 二  n3 三  n4 四  n5 五  n6 六  n7 七  n8 八  n9 九  n10 十
\*   zhou 周  xing 星  qi 期  ri 日  tian 天  li 礼  bai 拜  zhe 这  ge 个
\*   ben 本  xia 下  zao 早  shang 上  chen 晨  zhong 中  wu 午  bang 傍
\*   wan 晚  ye 夜  li2 里  ling 凌  dian 点  shi 时  fen 分  zhong2 钟
\*   xiao 小  hou 后  jin 今  ming 明  da 大  yue 月
\* Every datetime.now() of one parse reads the same instant, now.

Digits == <<"0", "1", "2", "3", "4", "5", "6", "7", "8", "9">>

IsDigit(c) == \E i \in 1..10 : Digits[i] = c

\* int(c) of a digit
DigitVal(c) == (CHOOSE i \in 1..10 : Digits[i] = c) - 1

\* w in s
Contains(s, w) == \E i \in 1..(Len(s) - Len(w) + 1) : SubSeq(s, i, i + Len(w) - 1) = w

\* the first index at which w occurs in s (0: nowhere)
Find(s, w) ==
    IF Contains(s, w)
    THEN CHOOSE i \in 1..Len(s) :
            /\ SubSeq(s, i, i + Len(w) - 1) = w
            /\ \A j \in 1..(i - 1) : SubSeq(s, j, j + Len(w) - 1) # w
    ELSE 0

RECURSIVE Replace(_, _, _)
\* s.replace(old, new)
Replace(s, old, new) ==
    IF Len(s) < Len(old) THEN s
    ELSE IF SubSeq(s, 1, Len(old)) = old
    THEN new \o Replace(SubSeq(s, Len(old) + 1, Len(s)), old, new)
    ELSE <<s[1]>> \o Replace(Tail(s), old, new)

RECURSIVE JoinSplit(_)
\* ' '.join(s.split())
JoinSplit(s) ==
    IF s = << >> THEN << >>
    ELSE IF s[1] = " " THEN JoinSplit(Tail(s))
    ELSE LET rest == Tail(s)
         IN  IF rest = << >> THEN s
             ELSE IF rest[1] # " " THEN <<s[1]>> \o JoinSplit(rest)
             ELSE LET more == JoinSplit(rest)
                  IN  IF more = << >> THEN <<s[1]>> ELSE <<s[1], " ">> \o more

\* self.weekday_map, in the order of the dict
weekday_map ==
    << <<<<"zhou", "n1">>, <<"xing", "qi", "n1">>>>,
       <<<<"zhou", "n2">>, <<"xing", "qi", "n2">>>>,
       <<<<"zhou", "n3">>, <<"xing", "qi", "n3">>>>,
       <<<<"zhou", "n4">>, <<"xing", "qi", "n4">>>>,
       <<<<"zhou", "n5">>, <<"xing", "qi", "n5">>>>,
       <<<<"zhou", "n6">>, <<"xing", "qi", "n6">>>>,
       <<<<"zhou", "ri">>, <<"xing", "qi", "ri">>>>,
       <<<<"zhou", "tian">>, <<"xing", "qi", "ri">>>>,
       <<<<"li", "bai">>, <<"xing", "qi">>>>,
       <<<<"zhe", "zhou">>, <<"ben", "zhou">>>>,
       <<<<"zhe", "ge", "zhou">>, <<"ben", "zhou">>>>,
       <<<<"zhe", "xing", "qi">>, <<"ben", "zhou">>>> >>

\* self.time_map, in the order of the dict
time_map ==
    << <<<<"zao", "shang">>, <<"shang", "wu">>>>,
       <<<<"zao", "chen">>, <<"shang", "wu">>>>,
       <<<<"zhong", "wu">>, <<"1", "2", "dian">>>>,
       <<<<"xia", "wu">>, <<"xia", "wu">>>>,
       <<<<"bang", "wan">>, <<"xia", "wu", "6", "dian">>>>,
       <<<<"wan", "shang">>, <<"wan", "shang">>>>,
       <<<<"ye", "li2">>, <<"wan", "shang">>>>,
       <<<<"ling", "chen">>, <<"ling", "chen">>>> >>

\* self.chinese_nums with the hour marker added to both sides (cn + '点',
\* num + '点'), in the order of the dict
chinese_nums ==
    << <<<<"n0", "dian">>, <<"0", "dian">>>>,
       <<<<"n1", "dian">>, <<"1", "dian">>>>,
       <<<<"n2", "dian">>, <<"2", "dian">>>>,
       <<<<"n3", "dian">>, <<"3", "dian">>>>,
       <<<<"n4", "dian">>, <<"4", "dian">>>>,
       <<<<"n5", "dian">>, <<"5", "dian">>>>,
       <<<<"n6", "dian">>, <<"6", "dian">>>>,
       <<<<"n7", "dian">>, <<"7", "dian">>>>,
       <<<<"n8", "dian">>, <<"8", "dian">>>>,
       <<<<"n9", "dian">>, <<"9", "dian">>>>,
       <<<<"n10", "dian">>, <<"1", "0", "dian">>>>,
       <<<<"n10", "n1", "dian">>, <<"1", "1", "dian">>>>,
       <<<<"n10", "n2", "dian">>, <<"1", "2", "dian">>>> >>

RECURSIVE ReplaceEach(_, _, _)
\* for old, new in map.items(): s = s.replace(old, new)
ReplaceEach(s, map, i) ==
    IF i > Len(map) THEN s
    ELSE LET replaced == Replace(s, map[i][1], map[i][2])
         IN  IF replaced = s THEN ReplaceEach(s, map, i + 1)
             ELSE ReplaceEach(replaced, map, i + 1)

\* _preprocess_time_string
_preprocess_time_string(time_str) ==
    ReplaceEach(ReplaceEach(ReplaceEach(JoinSplit(time_str), weekday_map, 1),
                            time_map, 1),
                chinese_nums, 1)

\* (\d{1,2})[点时] matched at index p of s: the hour and the index after the
\* marker (next = 0: no match at p)
HourAt(s, p) ==
    IF /\ p + 2 <= Len(s) /\ IsDigit(s[p]) /\ IsDigit(s[p + 1])
       /\ s[p + 2] \in {"dian", "shi"}
    THEN [hour |-> 10 * DigitVal(s[p]) + DigitVal(s[p + 1]), next |-> p + 3]
    ELSE IF p + 1 <= Len(s) /\ IsDigit(s[p]) /\ s[p + 1] \in {"dian", "shi"}
    THEN [hour |-> DigitVal(s[p]), next |-> p + 2]
    ELSE [hour |-> 0, next |-> 0]

\* re.search(r'(\d{1,2})[点时]', s) from index p on: the leftmost match
HourSearch(s, p) ==
    IF \E q \in p..Len(s) : HourAt(s, q).next # 0
    THEN HourAt(s, CHOOSE q \in p..Len(s) :
                      /\ HourAt(s, q).next # 0
                      /\ \A r \in p..(q - 1) : HourAt(s, r).next = 0)
    ELSE [hour |-> 0, next |-> 0]

\* (\d{1,2}) at index q of s: the number (NoTime: no digit there)
MinuteAt(s, q) ==
    IF q + 1 <= Len(s) /\ IsDigit(s[q]) /\ IsDigit(s[q + 1])
    THEN 10 * DigitVal(s[q]) + DigitVal(s[q + 1])
    ELSE IF q <= Len(s) /\ IsDigit(s[q]) THEN DigitVal(s[q])
    ELSE NoTime

\* re.search(r'(\d{1,2})[点时](\d{1,2})分?', s): group 2 of the leftmost match
\* (NoTime: no match)
MinuteSearch(s) ==
    LET Hit(q) == HourAt(s, q).next # 0 /\ MinuteAt(s, HourAt(s, q).next) # NoTime
    IN  IF \E q \in 1..Len(s) : Hit(q)
        THEN MinuteAt(s, HourAt(s, CHOOSE q \in 1..Len(s) :
                                      Hit(q) /\ \A r \in 1..(q - 1) : ~Hit(r)).next)
        ELSE NoTime

\* what a sub-parser gives when a ValueError leaves it (datetime.replace with
\* an hour above 23 or a minute above 59)
Raised == 0 - 2

\* date.replace(hour=hour, minute=minute, second=0, microsecond=0) on the day
\* with number date
OnDate(date, hour, minute) ==
    IF hour > 23 \/ minute > 59 THEN Raised
    ELSE date * Day + hour * 3600 + minute * 60

\* date.weekday() (Monday is 0); 2025-01-01 is a Wednesday
Weekday(date) == (date + 2) % 7

\* the hour after the 下午 / 晚上 rule
Afternoon(hour, time_str) ==
    IF Contains(time_str, <<"xia", "wu">>) /\ hour < 12 THEN hour + 12
    ELSE IF Contains(time_str, <<"wan", "shang">>) /\ hour < 12 THEN hour + 12
    ELSE hour

\* _combine_date_time
_combine_date_time(date, hour, time_str) ==
    LET minute == IF MinuteSearch(time_str) # NoTime THEN MinuteSearch(time_str) ELSE 0
    IN  OnDate(date, Afternoon(hour, time_str), minute)

\* _get_next_weekday
_get_next_weekday(weekday, weeks_ahead) ==
    LET today == now \div Day
        days_ahead == weekday - Weekday(today)
    IN  IF weeks_ahead > 0 THEN today + days_ahead + 7 * weeks_ahead
        ELSE IF days_ahead <= 0 THEN today + days_ahead + 7
        ELSE today + days_ahead

\* the dict weekdays of _parse_weekday_time, in its order
weekdays ==
    << <<<<"xing", "qi", "n1">>, 0>>, <<<<"xing", "qi", "n2">>, 1>>,
       <<<<"xing", "qi", "n3">>, 2>>, <<<<"xing", "qi", "n4">>, 3>>,
       <<<<"xing", "qi", "n5">>, 4>>, <<<<"xing", "qi", "n6">>, 5>>,
       <<<<"xing", "qi", "ri">>, 6>>, <<<<"xing", "qi", "tian">>, 6>> >>

\* the first entry of the dict (a sequence of <<name, number>>) whose name is
\* in the text (0: none)
FirstIn(dict, time_str) ==
    IF \E i \in 1..Len(dict) : Contains(time_str, dict[i][1])
    THEN CHOOSE i \in 1..Len(dict) :
            /\ Contains(time_str, dict[i][1])
            /\ \A j \in 1..(i - 1) : ~Contains(time_str, dict[j][1])
    ELSE 0

\* _parse_weekday_time
_parse_weekday_time(time_str) ==
    LET wd == FirstIn(weekdays, time_str)
        nx == Find(time_str, <<"xia", "zhou">>)
        b == Find(time_str, <<"ben", "zhou">>)
        z == Find(time_str, <<"zhe", "zhou">>)
        th == IF b = 0 THEN z ELSE IF z = 0 THEN b ELSE IF b < z THEN b ELSE z
        next_week == IF nx = 0 THEN [hour |-> 0, next |-> 0]
                     ELSE HourSearch(time_str, nx + 2)
        this_week == IF th = 0 THEN [hour |-> 0, next |-> 0]
                     ELSE HourSearch(time_str, th + 2)
        plain == HourSearch(time_str, 1)
    IN  IF wd = 0 THEN NoTime
        ELSE IF next_week.next # 0
        THEN _combine_date_time(_get_next_weekday(weekdays[wd][2], 1),
                                next_week.hour, time_str)
        ELSE IF this_week.next # 0
        THEN _combine_date_time(_get_next_weekday(weekdays[wd][2], 0),
                                this_week.hour, time_str)
        ELSE IF plain.next # 0
        THEN _combine_date_time(_get_next_weekday(weekdays[wd][2], 0),
                                plain.hour, time_str)
        ELSE NoTime

\* the dict relative_days of _parse_relative_days, in its order
relative_days ==
    << <<<<"jin", "tian">>, 0>>, <<<<"ming", "tian">>, 1>>, <<<<"hou", "tian">>, 2>>,
       <<<<"da", "hou", "tian">>, 3>>, <<<<"ming", "ri">>, 1>>, <<<<"hou", "ri">>, 2>> >>

\* _parse_relative_days: the first day name of the dict that is in the text
\* decides; a text with a day name and neither hour nor period gives None
_parse_relative_days(time_str) ==
    LET k == FirstIn(relative_days, time_str)
        target_date == now \div Day + relative_days[k][2]
        time_match == HourSearch(time_str, 1)
    IN  IF k = 0 THEN NoTime
        ELSE IF time_match.next # 0
        THEN _combine_date_time(target_date, time_match.hour, time_str)
        ELSE IF Contains(time_str, <<"shang", "wu">>) THEN OnDate(target_date, 9, 0)
        ELSE IF Contains(time_str, <<"xia", "wu">>) THEN OnDate(target_date, 15, 0)
        ELSE IF Contains(time_str, <<"wan", "shang">>) THEN OnDate(target_date, 20, 0)
        ELSE NoTime

\* a target that is never moved to the next day
NeverRoll(target) == target

\* target, or a day later "if target <= now"
RollToTomorrow(target) ==
    IF target = Raised THEN Raised
    ELSE IF target <= now THEN target + Day ELSE target

\* _parse_specific_time
_parse_specific_time(time_str) ==
    LET match == HourSearch(time_str, 1)
        minute == IF MinuteAt(time_str, match.next) # NoTime
                  THEN MinuteAt(time_str, match.next) ELSE 0
    IN  IF match.next = 0 THEN NoTime
        ELSE RollToTomorrow(OnDate(now \div Day, Afternoon(match.hour, time_str), minute))

\* the number of digits s begins with
RunLen(s) ==
    CHOOSE n \in 0..Len(s) :
        /\ \A i \in 1..n : IsDigit(s[i])
        /\ n = Len(s) \/ ~IsDigit(s[n + 1])

RECURSIVE NumVal(_)
\* int(ds) of a run of digits
NumVal(ds) ==
    IF ds = << >> THEN 0
    ELSE 10 * NumVal(SubSeq(ds, 1, Len(ds) - 1)) + DigitVal(ds[Len(ds)])

\* the first digit of s alone (NoTime: s has no digit)
FirstDigit(s) ==
    IF \E p \in 1..Len(s) : IsDigit(s[p])
    THEN DigitVal(s[CHOOSE q \in 1..Len(s) :
                       IsDigit(s[q]) /\ \A r \in 1..(q - 1) : ~IsDigit(s[r])])
    ELSE NoTime

\* int(re.findall(r'\d+', s)[0]) (NoTime: the list is empty)
FirstNumber(s) ==
    IF \E p \in 1..Len(s) : IsDigit(s[p])
    THEN LET p == CHOOSE q \in 1..Len(s) :
                     IsDigit(s[q]) /\ \A r \in 1..(q - 1) : ~IsDigit(s[r])
             rest == SubSeq(s, p, Len(s))
         IN  NumVal(SubSeq(rest, 1, RunLen(rest)))
    ELSE NoTime

\* the list formats of _parse_time_manual; a directive is one item
formats ==
    << <<"%Y", "-", "%m", "-", "%d", " ", "%H", ":", "%M", ":", "%S">>,
       <<"%Y", "-", "%m", "-", "%d", " ", "%H", ":", "%M">>,
       <<"%Y", "/", "%m", "/", "%d", " ", "%H", ":", "%M">>,
       <<"%m", "-", "%d", " ", "%H", ":", "%M">>,
       <<"%m", "yue", "%d", "ri", " ", "%H", "dian", "%M", "fen">>,
       <<"%m", "yue", "%d", "ri", " ", "%H", "dian">>,
       <<"%H", ":", "%M">>,
       <<"%H", "dian", "%M", "fen">>,
       <<"%H", "dian">> >>

\* the values a directive of strptime accepts
DirectiveRange ==
    [Y |-> 1..9999, m |-> 1..12, d |-> 1..31, H |-> 0..23, M |-> 0..59, S |-> 0..61]

RECURSIVE strptime(_, _, _)
\* datetime.strptime(s, fmt): the fields read, on the defaults 1900-01-01
\* 00:00:00 given in acc; ok is FALSE for ValueError.  A directive takes the
\* run of digits at its place (four for %Y, one or two otherwise), a blank of
\* the format takes one or more blanks
strptime(s, fmt, acc) ==
    LET fail == [acc EXCEPT !.ok = FALSE]
    IN  IF fmt = << >> THEN (IF s = << >> THEN acc ELSE fail)
        ELSE IF fmt[1] = " "
        THEN IF s # << >> /\ s[1] = " "
             THEN strptime(Tail(s),
                           IF Len(s) > 1 /\ s[2] = " " THEN fmt ELSE Tail(fmt), acc)
             ELSE fail
        ELSE IF fmt[1] \in {"%Y", "%m", "%d", "%H", "%M", "%S"}
        THEN LET n == RunLen(s)
                 v == NumVal(SubSeq(s, 1, n))
                 key == CASE fmt[1] = "%Y" -> "Y" [] fmt[1] = "%m" -> "m"
                          [] fmt[1] = "%d" -> "d" [] fmt[1] = "%H" -> "H"
                          [] fmt[1] = "%M" -> "M" [] fmt[1] = "%S" -> "S"
             IN  IF /\ (IF key = "Y" THEN n = 4 ELSE n \in {1, 2})
                    /\ v \in DirectiveRange[key]
                 THEN strptime(SubSeq(s, n + 1, Len(s)), Tail(fmt),
                               [acc EXCEPT ![key] = v])
                 ELSE fail
        ELSE IF s # << >> /\ s[1] = fmt[1] THEN strptime(Tail(s), Tail(fmt), acc)
        ELSE fail

\* the instant of the datetime strptime built (ok is FALSE when the day does
\* not exist in the month: ValueError); a datetime before 2025 is counted as
\* 2025-01-01T00:00:00, which no now of the model precedes
Parsed(s, fmt) ==
    LET p == strptime(s, fmt, [ok |-> TRUE, Y |-> 1900, m |-> 1, d |-> 1,
                               H |-> 0, M |-> 0, S |-> 0])
        t == IF p.Y < 2025 THEN 0
             ELSE (DaysBefore(p.Y, p.m) + p.d - 1) * Day + p.H * 3600 + p.M * 60 + p.S
    IN  IF p.ok /\ p.d <= DaysInMonth(p.Y, p.m)
        THEN [ok |-> TRUE, t |-> t, H |-> p.H, M |-> p.M]
        ELSE [ok |-> FALSE, t |-> NoTime, H |-> 0, M |-> 0]

RECURSIVE TryFormats(_, _)
\* the loop "for fmt in formats" of _parse_time_manual from formats[i] on
TryFormats(time_str, i) ==
    IF i > Len(formats) THEN NoTime
    ELSE LET fmt == formats[i]
             parsed == Parsed(time_str, fmt)
             HasItem(x) == \E j \in 1..Len(fmt) : fmt[j] = x
         IN  IF ~parsed.ok THEN TryFormats(time_str, i + 1)
             ELSE IF ~HasItem("%Y") /\ ~HasItem("%m")
             THEN RollToTomorrow(OnDate(now \div Day, parsed.H,
                                        IF HasItem("%M") THEN parsed.M ELSE 0))
             ELSE parsed.t

\* _parse_time_manual
_parse_time_manual(time_str) ==
    LET value == FirstNumber(time_str)
    IN  IF Contains(time_str, <<"hou">>) /\ value # NoTime
           /\ Contains(time_str, <<"fen", "zhong2">>)
        THEN now + value * 60
        ELSE IF Contains(time_str, <<"hou">>) /\ value # NoTime
           /\ Contains(time_str, <<"xiao", "shi">>)
        THEN now + value * 3600
        ELSE IF Contains(time_str, <<"hou">>) /\ value # NoTime
           /\ Contains(time_str, <<"tian">>)
        THEN now + value * Day
        ELSE IF Contains(time_str, <<"hou">>) /\ value # NoTime
           /\ Contains(time_str, <<"zhou">>)
        THEN now + value * Week
        ELSE IF Contains(time_str, <<"hou">>) /\ value # NoTime
           /\ Contains(time_str, <<"yue">>)
        THEN now + value * 30 * Day
        ELSE TryFormats(time_str, 1)

\* a guard that lets every result of a sub-parser through
AcceptAny(result) == result # NoTime

\* "if result and result > datetime.now()"
Accept(result) == result # NoTime /\ result > now

\* the results of the five sub-parsers on a text, in the order of the list
\* parsers; lib is what dateparser.parse gave for the text (None when it
\* raised)
SubResults(time_str, lib) ==
    <<_parse_weekday_time(time_str), _parse_relative_days(time_str),
      _parse_specific_time(time_str), lib, _parse_time_manual(time_str)>>

RECURSIVE FirstAccepted(_, _)
\* the two loops "for parser in parsers" over the results rs from rs[i] on:
\* the first accepted result; a ValueError that leaves a sub-parser ends both
FirstAccepted(rs, i) ==
    IF i > Len(rs) THEN NoTime
    ELSE IF rs[i] = Raised THEN Raised
    ELSE IF Accept(rs[i]) THEN rs[i]
    ELSE FirstAccepted(rs, i + 1)

\* parse_time / _parse_time_natural: the processed text, then the original
\* one; "except Exception: return None"
parse_time(time_str, lib1, lib2) ==
    LET processed_time == _preprocess_time_string(time_str)
        r == FirstAccepted(SubResults(processed_time, lib1)
                              \o SubResults(time_str, lib2), 1)
    IN  IF r = Raised THEN NoTime ELSE r

\* ---------------------------------------------------------- parsed phrases
RECURSIVE Decimal(_)
\* str(n) of a natural number
Decimal(n) == IF n < 10 THEN <<Digits[n + 1]>> ELSE Decimal(n \div 10) \o <<Digits[(n % 10) + 1]>>

\* the hours of the time-only phrases and the ways one is written:
\* "H:00", "H点", "H时"
ClockHours == {0, 9, 12, 23}
ClockForms == {"colon", "dian", "shi"}

ClockText(H, form) ==
    IF form = "colon" THEN Decimal(H) \o <<":", "0", "0">> ELSE Decimal(H) \o <<form>>

\* the amounts and units of the relative phrases "N分钟后", "N小时后", "N天后"
Amounts == {1, 10, 90}
Units == {"fen", "xiao", "tian"}

UnitSeconds(unit) == CASE unit = "fen" -> 60 [] unit = "xiao" -> 3600 [] unit = "tian" -> Day

RelativeText(N, unit) ==
    Decimal(N) \o (CASE unit = "fen" -> <<"fen", "zhong2", "hou">>
                     [] unit = "xiao" -> <<"xiao", "shi", "hou">>
                     [] unit = "tian" -> <<"tian", "hou">>)

\* other texts a user sends: 今天9点, 明天下午3点, 周五10点, 下周一 9点,
\* 2天后24点, 明天24点, 2025-03-01 10:00, 2025-01-01 10:00, 01-05 10:00,
\* 3月5日 10点30分, 9点75分, xx
OtherTexts ==
    { <<"jin", "tian", "9", "dian">>,
      <<"ming", "tian", "xia", "wu", "3", "dian">>,
      <<"zhou", "n5", "1", "0", "dian">>,
      <<"xia", "zhou", "n1", " ", "9", "dian">>,
      <<"2", "tian", "hou", "2", "4", "dian">>,
      <<"ming", "tian", "2", "4", "dian">>,
      <<"2", "0", "2", "5", "-", "0", "3", "-", "0", "1", " ", "1", "0", ":", "0", "0">>,
      <<"2", "0", "2", "5", "-", "0", "1", "-", "0", "1", " ", "1", "0", ":", "0", "0">>,
      <<"0", "1", "-", "0", "5", " ", "1", "0", ":", "0", "0">>,
      <<"3", "yue", "5", "ri", " ", "1", "0", "dian", "3", "0", "fen">>,
      <<"9", "dian", "7", "5", "fen">>,
      <<"x", "x">> }

\* the instants a parse is asked at: a Tuesday morning, noon to the second,
\* the second after, the afternoon, the last second of a month, a Sunday
ParseNows ==
    {27 * Day + 8 * 3600, 27 * Day + 12 * 3600, 27 * Day + 12 * 3600 + 1,
     27 * Day + 15 * 3600 + 1800, 30 * Day + 86399, 32 * Day + 9 * 3600}

\* what dateparser.parse may give _parse_with_dateparser for a phrase at the
\* instant t: nothing (None, or an exception, which is swallowed), or the
\* instant the phrase means: for a time-only phrase the hour on the day of t or,
\* preferring the future, on the next day; for a relative phrase t plus the
\* amount; for another text some instant before or after t
LibraryAnswers(kind, n, unit, t) ==
    CASE kind = "clock" ->
            {NoTime, (t \div Day) * Day + n * 3600,
             IF (t \div Day) * Day + n * 3600 <= t
             THEN (t \div Day + 1) * Day + n * 3600 ELSE (t \div Day) * Day + n * 3600}
      [] kind = "relative" -> {NoTime, t + n * UnitSeconds(unit)}
      [] OTHER -> {NoTime, t - 60, t + 90}

\* a weekday phrase for the hour: "周X H点" (bare), "下周X H点" (xia),
\* "本周X H点" (ben), and with the day written out "下周星期X H点" (xiazhou),
\* "本周星期X H点" (benzhou); weekday is 0 for Monday .. 6 for Sunday
WeekdayText(qualifier, weekday, H) ==
    (CASE qualifier = "bare" -> weekday_map[weekday + 1][1]
       [] qualifier = "xia" -> <<"xia">> \o weekday_map[weekday + 1][1]
       [] qualifier = "ben" -> <<"ben">> \o weekday_map[weekday + 1][1]
       [] qualifier = "xiazhou" -> <<"xia", "zhou">> \o weekdays[weekday + 1][1]
       [] qualifier = "benzhou" -> <<"ben", "zhou">> \o weekdays[weekday + 1][1])
        \o Decimal(H) \o <<"dian">>

\* the Chinese numerals for 0 .. 12: 零 一 二 三 四 五 六 七 八 九 十 十一 十二
ChineseNumerals ==
    <<<<"n0">>, <<"n1">>, <<"n2">>, <<"n3">>, <<"n4">>, <<"n5">>, <<"n6">>, <<"n7">>,
      <<"n8">>, <<"n9">>, <<"n10">>, <<"n10", "n1">>, <<"n10", "n2">>>>

\* the requests to parse one phrase at the instant t: the phrase (its kind,
\* its number n, its unit or qualifier, its weekday or day offset), its text,
\* and what the library gives for the processed and for the original text (one
\* answer when the two are equal)
Requests(kind, n, unit, day, time_str, t) ==
    {[op |-> "ask", kind |-> kind, n |-> n, unit |-> unit, day |-> day,
      time_str |-> time_str, lib1 |-> a, lib2 |-> b, result |-> NoTime] :
        a \in LibraryAnswers(kind, n, unit, t),
        b \in IF _preprocess_time_string(time_str) = time_str THEN {NoTime}
              ELSE LibraryAnswers(kind, n, unit, t)}

\* the phrases parsed: time-only and relative ones, weekday phrases for 10
\* o'clock, a Chinese numeral before 点, a relative-day keyword before "9点",
\* and the other texts
Asks(t) ==
    UNION ({Requests("clock", H, form, 0, ClockText(H, form), t) :
                H \in ClockHours, form \in ClockForms}
           \cup {Requests("relative", N, unit, 0, RelativeText(N, unit), t) :
                N \in Amounts, unit \in Units}
           \cup {Requests("weekday", 10, q, wd, WeekdayText(q, wd, 10), t) :
                q \in {"bare", "xia", "ben", "xiazhou", "benzhou"}, wd \in 0..6}
           \cup {Requests("numeral", v, "", 0, ChineseNumerals[v + 1] \o <<"dian">>, t) :
                v \in 0..12}
           \cup {Requests("relday", 9, "", relative_days[k][2],
                          relative_days[k][1] \o <<"9", "dian">>, t) :
                k \in 1..Len(relative_days)}
           \cup {Requests("other", 0, "", 0, s, t) : s \in OtherTexts})

ParserInit ==
    /\ impl \in Impls
    /\ now \in ParseNows
    /\ objs = << >>
    /\ reminders = << >>
    /\ running_tasks = [x \in {} |-> 0]
    /\ tasks = [x \in {} |-> 0]
    /\ delivered = << >>
    /\ ev \in Asks(now)
    /\ issued = {}
    /\ nticks = 0
    /\ file = << >>
    /\ up = TRUE

\* parse_time (TimeParser) / _parse_time_natural (ReminderPlugin) answers the
\* request
ParseTime ==
    /\ ev.op = "ask"
    /\ ev' = [ev EXCEPT !.op = "parse",
                        !.result = parse_time(ev.time_str, ev.lib1, ev.lib2)]
    /\ UNCHANGED <<impl, now, objs, reminders, running_tasks, tasks, delivered,
                   issued, nticks, file, up>>

ParserNext == ParseTime

ParserSpec == ParserInit /\ [][ParserNext]_vars

\* ------------------------------------------------------------------ claims
\* the stored record of an id that is in the store
Stored(id) == objs[RefOf(reminders, id)]

\* C1: when the firing of a one-shot reminder completes, whether a delivery
\* succeeded or all attempts failed, its record is not in the store and the
\* live-timer table has no entry for its id.
C1_OneShotRetired ==
    (ev.op = "fired" /\ ev.repeat = "none")
        => (~Has(reminders, ev.rid) /\ ev.rid \notin DOMAIN running_tasks)

\* C1 witness: a one-shot reminder has just been retired after max_retries
\* failed deliveries.
C1_Witness ==
    ev.op = "fired" /\ ev.repeat = "none" /\ ev.outcome = "exhausted" /\ ev.k = 3

\* C2: every successful create adds one record to the store: it overwrites no
\* earlier record, so N creates leave N more records.
C2_CreateAddsRecord ==
    ev.op = "create" => Len(reminders) = ev.k + 1

\* C3: in every reachable state at most one task that is neither finished nor
\* cancelled exists per reminder id.
C3_OneTimerPerId ==
    \A t1 \in DOMAIN tasks, t2 \in DOMAIN tasks :
        tasks[t1].rid = tasks[t2].rid => t1 = t2

\* C4: when a timer has expired for a stored, active reminder, delivery has
\* been invoked at least once by the time the record is removed or rescheduled.
C4_DeliveryBeforeRecurrence ==
    ev.op = "fired" => ev.k >= 1

\* C5: when a daily (weekly) reminder has fired at its stored fire time F, the
\* record is in the store, active, with fire time F + 24 h (F + 7 days).
C5_DailyAdvance ==
    (ev.op = "fired" /\ ev.repeat \in {"daily", "weekly"})
        => /\ Has(reminders, ev.rid)
           /\ Stored(ev.rid).active
           /\ Stored(ev.rid).target_time
                = ev.F + (IF ev.repeat = "daily" THEN 86400 ELSE 7 * 86400)

\* C6: when every delivery attempt of the firing of a recurring reminder has
\* failed, the stored fire time has been advanced and a new pending timer for
\* the next occurrence is in the live-timer table.
C6_RecurrenceAfterFailure ==
    (ev.op = "fired" /\ ev.outcome = "exhausted" /\ ev.repeat # "none")
        => /\ Has(reminders, ev.rid)
           /\ Stored(ev.rid).target_time > ev.F
           /\ ev.rid \in DOMAIN running_tasks
           /\ running_tasks[ev.rid] \in DOMAIN tasks
           /\ tasks[running_tasks[ev.rid]].pc = "sleep"
           /\ tasks[running_tasks[ev.rid]].wake = Stored(ev.rid).target_time

C8_AtMostOnce ==
    \A r \in 1..Len(delivered) : delivered[r].n <= 1

\* C9: a delete or a pause that arrived while the id was Firing is not undone
\* by the firing: after the delete the record is not in the store and the id
\* has no timer; after the pause the record stays inactive and has no timer.
C9_UserOpNotLost ==
    \A p \in issued :
        /\ p[1] \notin DOMAIN running_tasks
        /\ IF p[2] = "delete" THEN ~Has(reminders, p[1])
           ELSE Has(reminders, p[1]) /\ ~Stored(p[1]).active

\* C10: a pause leaves the record in the store, inactive, with its fire time
\* unchanged, the id without table entry and the timer the table held
\* cancelled; and no timer that expires begins a firing for a reminder that is
\* not in the store and active.
C10_PauseKeepsRecord ==
    /\ ev.op = "pause"
          => /\ Has(reminders, ev.rid)
             /\ ~Stored(ev.rid).active
             /\ Stored(ev.rid).target_time = ev.F
             /\ ev.rid \notin DOMAIN running_tasks
             /\ ev.h \notin DOMAIN tasks
    /\ ev.begun => ev.act

\* C10 witness: a pause has just cancelled a pending timer.
C10_Witness ==
    ev.op = "pause" /\ ev.h # 0 /\ ~Stored(ev.rid).active

\* what "list reminders" shows the caller, position by position
Listed(sender_id) ==
    IF impl = "plugin" THEN PluginListReminders(Cur, sender_id)
    ELSE ManagerListReminders(Cur, sender_id)

\* the tasks of an id that have neither finished nor been cancelled
Pending(id) == {t \in DOMAIN tasks : tasks[t].rid = id}

\* C11: a resume (of a paused reminder) leaves the record in the store, active,
\* with the fire time it had, and a pending timer for it is in the table.
C11_ResumeRearms ==
    ev.op = "resume"
        => /\ Has(reminders, ev.rid)
           /\ Stored(ev.rid).active
           /\ Stored(ev.rid).target_time = ev.F
           /\ ev.rid \in DOMAIN running_tasks
           /\ running_tasks[ev.rid] \in DOMAIN tasks
           /\ tasks[running_tasks[ev.rid]].pc = "sleep"

\* C12: a toggle to the state the reminder already has changes neither the
\* store, the file nor the timers, and the caller is told it was a no-op, a
\* reply different from that of a failed toggle and of an unknown number.
C12_NoopReported ==
    [][ev'.op = "noop"
         => /\ UNCHANGED <<objs, reminders, running_tasks, tasks, file>>
            /\ ev'.outcome = "already"
            /\ ev'.outcome \notin {"failed", "notfound", "ok"}]_vars

\* C13: for every caller, the reminder "list reminders" shows at position n is
\* the reminder the number n of delete, pause and resume designates.
C13_IndexMatchesList ==
    \A s \in Senders : \A n \in 1..Len(Listed(s)) :
        Listed(s)[n].id = UserReminders(Cur, s)[n].id

\* the frame of a delete of the caller's number 1 out of two reminders: exactly
\* that record leaves the store, the timer the table held for it is cancelled
\* and its entry removed, the other record and every other timer are as before
DeleteFrame(s) ==
    LET other == UserReminders(Cur, s)[2]
    IN  /\ reminders' = SelectSeq(reminders, LAMBDA e : e.id # ev'.rid)
        /\ ~Has(reminders', ev'.rid)
        /\ objs'[other.ref] = objs[other.ref]
        /\ DOMAIN running_tasks' = DOMAIN running_tasks \ {ev'.rid}
        /\ \A x \in DOMAIN running_tasks' : running_tasks'[x] = running_tasks[x]
        /\ ev'.h \notin DOMAIN tasks'
        /\ \A t \in DOMAIN tasks \ {ev'.h} :
              t \in DOMAIN tasks' /\ tasks'[t] = tasks[t]

\* the caller s has two reminders and this step deletes number 1
DeletesFirstOfTwo(s) ==
    /\ ev'.op = "delete"
    /\ Len(UserReminders(Cur, s)) = 2
    /\ UserReminders(Cur, s)[1].id = ev'.rid

C15_BadIndexNoChange ==
    [][ev'.op = "badindex"
         => /\ UNCHANGED <<objs, reminders, running_tasks, tasks, file>>
            /\ ev'.outcome = "notfound"]_vars

\* C15 witness: an index error has been reported while the store holds a
\* reminder with a pending timer.
C15_Witness ==
    ev.op = "badindex" /\ Len(reminders) >= 1 /\ DOMAIN running_tasks # {}

\* C16: a create that succeeds stores and schedules a fire time strictly after
\* the current time; a create that fails (nothing parsed, or an instant not in
\* the future) is reported as failed and changes neither the store, the file
\* nor the timers.
C16_CreateOnlyFuture ==
    [][/\ ev'.op = "create"
          => /\ ev'.F > now'
             /\ Has(reminders', ev'.rid)
             /\ objs'[RefOf(reminders', ev'.rid)].target_time = ev'.F
             /\ \A t \in DOMAIN tasks' \ DOMAIN tasks : tasks'[t].wake > now'
       /\ ev'.op = "createfail"
          => /\ UNCHANGED <<objs, reminders, running_tasks, tasks, file>>
             /\ ev'.outcome = "failed"]_vars

\* C16 witness: a create has just been refused while the store holds a
\* reminder with a pending timer.
C16_Witness ==
    ev.op = "createfail" /\ Len(reminders) >= 1 /\ DOMAIN running_tasks # {}

\* C17: every reminder that has an entry in the live-timer table has a stored
\* fire time strictly after the current time.
C17_TimerInFuture ==
    \A id \in DOMAIN running_tasks :
        Has(reminders, id) => Stored(id).target_time > now

\* C18: no one-shot reminder whose firing has begun is in the store with
\* active = false: a pause that arrives during the firing leaves no such record.
C18_NoPausedFiredOneShot ==
    \A p \in issued :
        p[2] = "pause"
            => ~(/\ Has(reminders, p[1])
                 /\ Stored(p[1]).repeat_type = "none"
                 /\ ~Stored(p[1]).active)

\* C19: right after startup recovery every persisted record that is active with
\* a fire time after the current time has exactly one pending timer, the one
\* the table holds, due at its fire time; every inactive record has none.
C19_RecoveryRearms ==
    ev.op = "start"
        => \A i \in 1..Len(file) :
             LET r == from_dict(file[i])
             IN  /\ (r.active /\ r.target_time > now)
                       => /\ Cardinality(Pending(r.id)) = 1
                          /\ r.id \in DOMAIN running_tasks
                          /\ running_tasks[r.id] \in Pending(r.id)
                          /\ tasks[running_tasks[r.id]].pc = "sleep"
                          /\ tasks[running_tasks[r.id]].wake = r.target_time
                 /\ ~r.active
                       => Pending(r.id) = {} /\ r.id \notin DOMAIN running_tasks

\* C19 witness: a recovery has just run over a file that holds an active
\* record due later and a paused record.
C19_Witness ==
    /\ ev.op = "start"
    /\ \E i \in 1..Len(file) :
          file[i].active /\ fromisoformat(file[i].target_time) > now
    /\ \E j \in 1..Len(file) : ~file[j].active

\* C20: right after startup recovery no active one-shot record whose fire time
\* is not after the current time is left: it is not in the store, not in the
\* file, and has no timer.
C20_MissedOneShotDropped ==
    ev.op = "start"
        => /\ \A i \in 1..Len(reminders) :
                 LET r == objs[reminders[i].ref]
                 IN  ~(r.repeat_type = "none" /\ r.active /\ r.target_time <= now)
           /\ \A i \in 1..Len(file) :
                 ~(file[i].repeat_type = "none" /\ file[i].active
                   /\ fromisoformat(file[i].target_time) <= now)

\* the records of self.reminders, in the order the dict enumerates them
StoreRecords == [i \in 1..Len(reminders) |-> objs[reminders[i].ref]]

\* C21: what a save wrote, read back with from_dict, is the record set that
\* was saved: while the process runs, the records decoded from data_file are
\* the records of the store, one for one and equal in all nine fields (id,
\* sender_id, target_id, target_type, content, target_time, repeat_type,
\* active, created_at); a stop leaves data_file as it is, so the new instance
\* after a restart holds the records the old one saved.
C21_RoundTrip ==
    [][/\ up' => /\ Len(file') = Len(reminders')
                 /\ \A i \in 1..Len(file') : from_dict(file'[i]) = StoreRecords'[i]
       /\ ~up' => file' = file]_vars

\* C21 witness: a new instance has just loaded two records the old one saved,
\* one of them paused, one of them recurring.
C21_Witness ==
    /\ ev.op = "start"
    /\ Len(reminders) = 2
    /\ \E i \in 1..2 : ~StoreRecords[i].active
    /\ \E i \in 1..2 : StoreRecords[i].repeat_type = "weekly"
    /\ \E i \in 1..2 : StoreRecords[i].target_time % 60 # 0

\* the ids of the reminders in the order the store enumerates them: the dict
\* of the running process, the document in data_file while it is stopped
StoreIds ==
    IF up THEN [i \in 1..Len(reminders) |-> reminders[i].id]
    ELSE [i \in 1..Len(file) |-> file[i].id]

PosIn(ids, x) == CHOOSE i \in 1..Len(ids) : ids[i] = x

\* C22: the store enumerates the reminders in the order they were created,
\* and no step changes that order: two reminders that are in the store before
\* and after a step (a firing that advances target_time, a pause or resume, a
\* delete of another reminder, a stop, a start with its load) keep their
\* relative order, a reminder that enters comes after all that were there,
\* and created_at never decreases along the enumeration.
C22_OrderStable ==
    [][LET old == StoreIds
           new == StoreIds'
           In(ids, x) == \E i \in 1..Len(ids) : ids[i] = x
       IN  /\ \A i, j \in 1..Len(new) :
                 (i < j /\ In(old, new[i]) /\ In(old, new[j]))
                    => PosIn(old, new[i]) < PosIn(old, new[j])
           /\ \A i, j \in 1..Len(new) :
                 (In(old, new[i]) /\ ~In(old, new[j])) => i < j
           /\ up' => \A i, j \in 1..Len(reminders') :
                        i < j => StoreRecords'[i].created_at <= StoreRecords'[j].created_at
      ]_vars

\* C22 witness: after a restart the store holds two reminders, and the one
\* created first is a daily one that has fired and now is due after the other.
C22_Witness ==
    /\ ev.op = "start"
    /\ Len(reminders) = 2
    /\ StoreRecords[1].created_at < StoreRecords[2].created_at
    /\ StoreRecords[1].repeat_type = "daily"
    /\ StoreRecords[1].target_time > StoreRecords[1].created_at + Day
    /\ StoreRecords[1].target_time > StoreRecords[2].target_time

\* C23: a write of data_file that was interrupted (the process died in it, or
\* it raised part-way) leaves a file from which a load gets either the whole
\* record set of before the write or the whole record set the write was
\* making, never a part of one and never the empty set in their place.
C23_WriteAtomic ==
    [][ev'.write # "ok"
         => LET seen == Loaded(file')
            IN  \/ seen = Loaded(file)
                \/ \E s \in Senders, n \in Indexes, a \in BOOLEAN :
                      \/ /\ Saves(DeleteHandler(s, n))
                         /\ seen = Loaded(DeleteHandler(s, n).file)
                      \/ /\ Saves(ToggleHandler(s, n, a))
                         /\ seen = Loaded(ToggleHandler(s, n, a).file)]_vars

\* C24: after a delete whose write of data_file failed, the record is still
\* in the store of the running process.
C24_KeptUntilWritten ==
    (ev.op = "delete" /\ ev.write # "ok") => Has(reminders, ev.rid)

C26_MonthlyClamped ==
    (ev.op = "fired" /\ ev.repeat = "monthly")
        => LET d == DateOf(ev.F)
               y == IF d[2] = 12 THEN d[1] + 1 ELSE d[1]
               mo == IF d[2] = 12 THEN 1 ELSE d[2] + 1
               day == IF d[3] > DaysInMonth(y, mo) THEN DaysInMonth(y, mo) ELSE d[3]
               next == (DaysBefore(y, mo) + day - 1) * Day + (ev.F % Day)
           IN  /\ Has(reminders, ev.rid)
               /\ Stored(ev.rid).target_time = next
               /\ ev.rid \in DOMAIN running_tasks
               /\ running_tasks[ev.rid] \in DOMAIN tasks
               /\ tasks[running_tasks[ev.rid]].wake = next

\* C27: whatever the text and the instant it is parsed at, parse_time gives
\* None or an instant strictly after now, never an instant at or before now.
C27_FutureOrFailure ==
    ev.op = "parse" => (ev.result = NoTime \/ ev.result > now)

\* a parse done in which a sub-parser gave an instant that is not after now
\* (today's hour, already past) and a later one gave the answer
C27_Witness ==
    /\ ev.op = "parse"
    /\ ev.result > now
    /\ LET tries == SubResults(_preprocess_time_string(ev.time_str), ev.lib1)
       IN  \E i \in 1..Len(tries) : tries[i] >= 0 /\ tries[i] <= now

\* C28: parse_time gives the result of the first of the ten tries (weekday,
\* relative day, explicit hour, library, manual on the processed text, then
\* the same five on the original text) whose result is strictly after now,
\* and None only when none of the ten has such a result.
C28_FirstWins ==
    LET tries == SubResults(_preprocess_time_string(ev.time_str), ev.lib1)
                     \o SubResults(ev.time_str, ev.lib2)
        Wins(i) == tries[i] >= 0 /\ tries[i] > now
    IN  ev.op = "parse" =>
            IF \E i \in 1..Len(tries) : Wins(i)
            THEN \E i \in 1..Len(tries) :
                    /\ Wins(i)
                    /\ \A j \in 1..(i - 1) : ~Wins(j)
                    /\ ev.result = tries[i]
            ELSE ev.result = NoTime

\* C29: a time-only phrase for the hour H ("H:00", "H点", "H时") parsed at T
\* gives H:00 on the date of T when T is before it, and H:00 on the next date
\* when T is at or after it (the library, where it is reached, being silent or
\* giving the hour on one of these two dates).
C29_TimeOnly ==
    (ev.op = "parse" /\ ev.kind = "clock") =>
        LET target == (now \div Day) * Day + ev.n * 3600
        IN  ev.result = IF now < target THEN target ELSE target + Day

\* "12:00" parsed at 12:00:00 to the second gives 12:00 of the next day
C29_Witness ==
    /\ ev.op = "parse"
    /\ ev.kind = "clock"
    /\ ev.time_str = <<"1", "2", ":", "0", "0">>
    /\ now = (now \div Day) * Day + 12 * 3600
    /\ ev.result = now + Day

\* C30: "N分钟后", "N小时后", "N天后" with N >= 1 parsed at T give exactly T
\* plus N minutes, hours, days (the library, which is asked before the manual
\* parser, being silent or giving that instant).
C30_Relative ==
    (ev.op = "parse" /\ ev.kind = "relative") =>
        ev.result = now + ev.n * UnitSeconds(ev.unit)

\* "90小时后" answered by the manual parser, the library being silent
C30_Witness ==
    /\ ev.op = "parse"
    /\ ev.kind = "relative"
    /\ ev.n = 90
    /\ ev.unit = "xiao"
    /\ ev.lib1 = NoTime
    /\ ev.result = now + 90 * 3600

\* C31: "下周X H点" (next <weekday> at H), whatever today's weekday and X,
\* resolves to a date at least 7 days after today's date.
C31_NextWeekSevenDays ==
    (ev.op = "parse" /\ ev.kind = "weekday" /\ ev.unit \in {"xia", "xiazhou"}) =>
        /\ ev.result # NoTime
        /\ ev.result \div Day >= now \div Day + 7

\* C32: "本周X H点" (this <weekday> at H) resolves to that weekday inside the
\* week, Monday to Sunday, that contains today, never to a date in a later week.
C32_ThisWeekInside ==
    (ev.op = "parse" /\ ev.kind = "weekday" /\ ev.unit \in {"ben", "benzhou"}) =>
        LET monday == now \div Day - Weekday(now \div Day)
        IN  /\ ev.result # NoTime
            /\ ev.result \div Day \in monday..(monday + 6)
            /\ Weekday(ev.result \div Day) = ev.day

\* C33: a bare "周X H点" resolves to the next occurrence of that weekday at
\* H:00 that is after now: today when today is that weekday and H:00 has not
\* passed, 7 days from today only once it has.
C33_BareWeekday ==
    (ev.op = "parse" /\ ev.kind = "weekday" /\ ev.unit = "bare") =>
        LET today == now \div Day
            target == (today + ((ev.day + 7 - Weekday(today)) % 7)) * Day + ev.n * 3600
        IN  ev.result = IF target > now THEN target ELSE target + Week

\* C34: a Chinese numeral for 0 .. 12 before 点 is normalised to its digits
\* (十一点 to 11点, 十二点 to 12点), and the hour parsed is the numeral's value.
C34_NumeralHour ==
    (ev.op = "parse" /\ ev.kind = "numeral") =>
        /\ _preprocess_time_string(ev.time_str) = Decimal(ev.n) \o <<"dian">>
        /\ ev.result # NoTime
        /\ ev.result % Day = ev.n * 3600

\* C40: the relative-day parser resolves 今天 to today, 明天 and 明日 to 1 day,
\* 后天 and 后日 to 2 days and 大后天 to 3 days from today, also for a keyword
\* that contains another one, and parse_time returns that instant when it is
\* after now.
C40_RelativeDayOffset ==
    (ev.op = "parse" /\ ev.kind = "relday") =>
        LET target == (now \div Day + ev.day) * Day + ev.n * 3600
        IN  /\ _parse_relative_days(_preprocess_time_string(ev.time_str)) = target
            /\ target > now => ev.result = target

\* C38: every id in the live-timer table running_tasks is the id of a record
\* that is in the store and active: firing, delete, pause and the retirement
\* of a one-shot reminder leave no entry for a record that is gone or paused.
C38_NoOrphanTimer ==
    \A id \in DOMAIN running_tasks :
        Has(reminders, id) /\ Stored(id).active

\* C36: no delivery is sent for a reminder id after its delete has completed
\* or while it is paused: a step in which a delivery is made begins with the
\* record of that id in the store and active.
C36_NoDeliveryAfterDelete ==
    [][(ev'.op = "fired" /\ ev'.outcome = "ok") =>
          (Has(reminders, ev'.rid) /\ Stored(ev'.rid).active)]_vars

\* C37: a record leaves data_file only through its delete or through the
\* firing of a one-shot reminder: no step whose write of data_file went well,
\* a save after a load that failed at startup included, takes another record
\* out of the file.
C37_StoreNotErased ==
    [][ev'.write = "ok" =>
          \A i \in 1..Len(file) :
              "id" \in DOMAIN file[i] =>
                  \/ \E j \in 1..Len(file') :
                        "id" \in DOMAIN file'[j] /\ file'[j].id = file[i].id
                  \/ ev'.op = "delete" /\ ev'.rid = file[i].id
                  \/ ev'.op = "fired" /\ ev'.rid = file[i].id /\ ev'.repeat = "none"]_vars

\* C39: a list, delete, pause or resume command of owner A, with any number,
\* leaves every record, every timer and every data_file entry of another
\* owner as it was, and what the list shows A is made of A's records alone:
\* it is the same as over a store that holds nothing but A's records.
C39_OwnerIsolation ==
    \A A \in Owners :
        LET others(m) == SelectSeq(m.reminders, LAMBDA e : m.objs[e.ref].sender_id # A)
            foreign(f) == SelectSeq(f, LAMBDA d : d.sender_id # A)
            alone == [Cur EXCEPT !.reminders =
                         SelectSeq(reminders, LAMBDA e : objs[e.ref].sender_id = A)]
            Untouched(m) ==
                /\ others(m) = others(Cur)
                /\ \A i \in 1..Len(others(Cur)) :
                      m.objs[others(Cur)[i].ref] = objs[others(Cur)[i].ref]
                /\ \A id \in DOMAIN running_tasks \cup DOMAIN m.running_tasks :
                      id[1] # A => /\ id \in DOMAIN running_tasks
                                   /\ id \in DOMAIN m.running_tasks
                                   /\ m.running_tasks[id] = running_tasks[id]
                /\ \A t \in DOMAIN tasks :
                      tasks[t].rid[1] # A => t \in DOMAIN m.tasks /\ m.tasks[t] = tasks[t]
                /\ \A t \in DOMAIN m.tasks :
                      m.tasks[t].rid[1] # A => t \in DOMAIN tasks
                /\ foreign(m.file) = foreign(file)
        IN  /\ \A n \in Indexes : Untouched(DeleteHandler(A, n))
            /\ \A n \in Indexes, a \in BOOLEAN : Untouched(ToggleHandler(A, n, a))
            /\ \A i \in 1..Len(Listed(A)) : objs[Listed(A)[i].ref].sender_id = A
            /\ Listed(A) = IF impl = "plugin" THEN PluginListReminders(alone, A)
                           ELSE ManagerListReminders(alone, A)

\* C39 witness: a delete of one owner has taken their record out while a
\* record of the other owner is in the store with its pending timer.
C39_Witness ==
    /\ ev.op = "delete"
    /\ \E i \in 1..Len(reminders) :
          /\ reminders[i].id[1] # ev.rid[1]
          /\ reminders[i].id \in DOMAIN running_tasks
          /\ objs[reminders[i].ref].active

\* the process is up and the record of the id is stored and active, and no
\* task of the id is left: none sleeping, none sending, none backing off
Stranded(id) == up /\ Has(reminders, id) /\ Stored(id).active /\ Pending(id) = {}

\* C35: an active stored reminder is never left for good without a pending
\* timer: whatever the run of creates, firings, pauses, resumes and restarts,
\* the reminder created in the first second is again and again either out of
\* the active store or in possession of a task that will fire it.
C35_NeverStranded == []<>~Stranded(<<"u1", StartNow>>)

====
